---- MODULE Spec2Model ----
(***************************************************************************)
(* Model of setup.py of saucestorage: the packaging script that resolves   *)
(* the package name and version (from version.sh in a working copy, from   *)
(* PKG-INFO in a source package) and then calls setuptools.setup().        *)
(*                                                                         *)
(* Python strings are modelled as sequences of one-character strings, so   *)
(* that strip, split, startswith, replace and the os.path functions are    *)
(* computed the way the library computes them.                             *)
(***************************************************************************)
EXTENDS Integers, Sequences, FiniteSets, TLC

VARIABLES
    cwd,            \* os.getcwd() of the run
    file,           \* __file__ : the path the script was invoked by
    scriptDir,      \* the directory that really holds setup.py (canonical)
    fs,             \* files next to setup.py: path -> [status, data]
    pc,             \* position of the script
    here,           \* line 7
    version,        \* line 10 / 16
    package_name,   \* line 11 / 18
    package,        \* line 19
    lines,          \* f.readlines() of line 14
    i,              \* index of the line the for loop of line 14 is at
    spawned,        \* commands run by check_output, in order
    opened,         \* files opened by open(), in order
    setupCalls,     \* keyword arguments of each setup() call, in order
    error           \* the exception that ended the run, or "none"

vars == <<cwd, file, scriptDir, fs, pc, here, version, package_name, package,
          lines, i, spawned, opened, setupCalls, error>>

env == <<cwd, file, scriptDir, fs>>

\* Longest PKG-INFO file, in lines.
MaxLines == 3

\* A Python name that has not been assigned: reading it raises NameError.
Unbound == <<"<unbound>">>

----------------------------------------------------------------------------
(* str methods *)

\* "\x0b", the vertical tab (the string holds the character itself)
VerticalTab == ""

\* string.whitespace of Python 2.7: " \t\n\r\x0b\x0c"
Whitespace == {" ", "\t", "\n", "\r", VerticalTab, "\f"}

RECURSIVE lstrip(_)
lstrip(s) ==
    IF s = <<>> \/ Head(s) \notin Whitespace THEN s ELSE lstrip(Tail(s))

RECURSIVE rstrip(_)
rstrip(s) ==
    IF s = <<>> \/ s[Len(s)] \notin Whitespace THEN s
    ELSE rstrip(SubSeq(s, 1, Len(s) - 1))

\* Mutant of strip: strips the left side only.
strip_left_only(s) == lstrip(s)

\* str.strip() with no argument
strip(s) == rstrip(lstrip(s))

\* str.startswith(prefix)
startswith(s, prefix) ==
    Len(s) >= Len(prefix) /\ SubSeq(s, 1, Len(prefix)) = prefix

\* str.endswith(suffix)
endswith(s, suffix) ==
    Len(s) >= Len(suffix)
    /\ SubSeq(s, Len(s) - Len(suffix) + 1, Len(s)) = suffix

\* str.find(c) + 1 for a one-character c: 0 when c does not occur
RECURSIVE find(_, _)
find(s, c) ==
    IF s = <<>> THEN 0
    ELSE IF Head(s) = c THEN 1
    ELSE LET r == find(Tail(s), c) IN IF r = 0 THEN 0 ELSE r + 1

\* str.rfind(c) + 1 for a one-character c: 0 when c does not occur
RECURSIVE rfind(_, _)
rfind(s, c) ==
    IF s = <<>> THEN 0
    ELSE IF s[Len(s)] = c THEN Len(s)
    ELSE rfind(SubSeq(s, 1, Len(s) - 1), c)

\* str.split(c) for a one-character separator c
RECURSIVE split(_, _)
split(s, c) ==
    LET k == find(s, c) IN
    IF k = 0 THEN <<s>>
    ELSE <<SubSeq(s, 1, k - 1)>> \o split(SubSeq(s, k + 1, Len(s)), c)

\* sep.join(parts)
RECURSIVE join(_, _)
join(sep, parts) ==
    IF parts = <<>> THEN <<>>
    ELSE IF Len(parts) = 1 THEN parts[1]
    ELSE parts[1] \o sep \o join(sep, Tail(parts))

\* Mutant of replace: str.replace(old, new, 1), only the first occurrence.
replace_first(s, old, new) ==
    LET k == find(s, old) IN
    IF k = 0 THEN s
    ELSE SubSeq(s, 1, k - 1) \o <<new>> \o SubSeq(s, k + 1, Len(s))

\* str.replace(old, new) for one-character old and new
replace(s, old, new) == join(<<new>>, split(s, old))

\* file.readlines(): the lines of the content, each with its line end
RECURSIVE readlines(_)
readlines(content) ==
    LET k == find(content, "\n") IN
    IF content = <<>> THEN <<>>
    ELSE IF k = 0 THEN <<content>>
    ELSE <<SubSeq(content, 1, k)>>
         \o readlines(SubSeq(content, k + 1, Len(content)))

----------------------------------------------------------------------------
(* os.path (posixpath) *)

\* s with every trailing "/" removed: str.rstrip('/')
RECURSIVE rstrip_slash(_)
rstrip_slash(s) ==
    IF s = <<>> \/ s[Len(s)] # "/" THEN s
    ELSE rstrip_slash(SubSeq(s, 1, Len(s) - 1))

\* path.dirname(p)
dirname(p) ==
    LET head == SubSeq(p, 1, rfind(p, "/")) IN
    IF head # <<>> /\ rstrip_slash(head) # <<>> THEN rstrip_slash(head)
    ELSE head

\* Mutant of basename: the first component instead of the last.
basename_first(p) ==
    LET comps == SelectSeq(split(p, "/"), LAMBDA c : c # <<>>) IN
    IF comps = <<>> THEN <<>> ELSE comps[1]

\* path.basename(p)
basename(p) == SubSeq(p, rfind(p, "/") + 1, Len(p))

\* path.isabs(p)
isabs(p) == startswith(p, <<"/">>)

\* path.join(a, b)
path_join(a, b) ==
    IF startswith(b, <<"/">>) THEN b
    ELSE IF a = <<>> \/ endswith(a, <<"/">>) THEN a \o b
    ELSE a \o <<"/">> \o b

\* the component loop of path.normpath
RECURSIVE norm_comps(_, _, _)
norm_comps(comps, new_comps, initial_slashes) ==
    IF comps = <<>> THEN new_comps
    ELSE
        LET comp == Head(comps)
            n    == Len(new_comps)
        IN
        IF comp = <<>> \/ comp = <<".">>
        THEN norm_comps(Tail(comps), new_comps, initial_slashes)
        ELSE IF comp # <<".", ".">>
                \/ (initial_slashes = 0 /\ n = 0)
                \/ (n > 0 /\ new_comps[n] = <<".", ".">>)
        THEN norm_comps(Tail(comps), Append(new_comps, comp), initial_slashes)
        ELSE IF n > 0
        THEN norm_comps(Tail(comps), SubSeq(new_comps, 1, n - 1),
                        initial_slashes)
        ELSE norm_comps(Tail(comps), new_comps, initial_slashes)

\* path.normpath(p)
normpath(p) ==
    IF p = <<>> THEN <<".">>
    ELSE
        LET initial_slashes ==
                IF ~startswith(p, <<"/">>) THEN 0
                ELSE IF startswith(p, <<"/", "/">>)
                        /\ ~startswith(p, <<"/", "/", "/">>) THEN 2
                ELSE 1
            joined == join(<<"/">>,
                           norm_comps(split(p, "/"), <<>>, initial_slashes))
            result == [k \in 1..initial_slashes |-> "/"] \o joined
        IN IF result = <<>> THEN <<".">> ELSE result

\* path.abspath(p)
abspath(p) == normpath(IF isabs(p) THEN p ELSE path_join(cwd, p))

\* path.exists(p)
exists(p) == p \in DOMAIN fs

----------------------------------------------------------------------------
(* literals of the script *)

VersionSh     == <<"v", "e", "r", "s", "i", "o", "n", ".", "s", "h">>
PkgInfo       == <<"P", "K", "G", "-", "I", "N", "F", "O">>
VersionPrefix == <<"V", "e", "r", "s", "i", "o", "n", ":">>
NamePrefix    == <<"N", "a", "m", "e", ":">>
UrlPrefix     == <<"h", "t", "t", "p", "s", ":", "/", "/", "g", "i", "t", "h",
                   "u", "b", ".", "c", "o", "m", "/", "s", "a", "u", "c", "e",
                   "l", "a", "b", "s", "/">>
VersionJson   == <<"v", "e", "r", "s", "i", "o", "n", ".", "j", "s", "o", "n">>

----------------------------------------------------------------------------
(* the runs that are explored *)

\* How the script is started: working directory, the path given to python,
\* and the directory setup.py really is in.
Invocations ==
    { \* cd /w/a-b-c; python setup.py
      [cwd  |-> <<"/", "w", "/", "a", "-", "b", "-", "c">>,
       file |-> <<"s", "e", "t", "u", "p", ".", "p", "y">>,
       dir  |-> <<"/", "w", "/", "a", "-", "b", "-", "c">>],
      \* cd /w; python a-b-c/setup.py
      [cwd  |-> <<"/", "w">>,
       file |-> <<"a", "-", "b", "-", "c", "/", "s", "e", "t", "u", "p", ".",
                  "p", "y">>,
       dir  |-> <<"/", "w", "/", "a", "-", "b", "-", "c">>],
      \* cd /tmp; python /w/a-b-c/setup.py
      [cwd  |-> <<"/", "t", "m", "p">>,
       file |-> <<"/", "w", "/", "a", "-", "b", "-", "c", "/", "s", "e", "t",
                  "u", "p", ".", "p", "y">>,
       dir  |-> <<"/", "w", "/", "a", "-", "b", "-", "c">>],
      \* cd /w/a-b-c/t; python ../setup.py
      [cwd  |-> <<"/", "w", "/", "a", "-", "b", "-", "c", "/", "t">>,
       file |-> <<".", ".", "/", "s", "e", "t", "u", "p", ".", "p", "y">>,
       dir  |-> <<"/", "w", "/", "a", "-", "b", "-", "c">>] }

\* version.sh: absent, or what running it gives.
MarkerChoices ==
    { [status |-> "absent", data |-> <<>>],
      [status |-> "ok",     data |-> <<" ", "1", ".", "0", "-", "b", VerticalTab, "\n">>],
      [status |-> "nonzero", data |-> <<>>],    \* exits with a non-zero code
      [status |-> "noexec",  data |-> <<>>] }   \* cannot be executed

\* The lines PKG-INFO files are made of.
PkgInfoLines ==
    { <<"N", "a", "m", "e", ":", " ", "x", "-", "y", "-", "z", "\n">>,
      <<"N", "a", "m", "e", ":", VerticalTab, " ", "q", "\f", "\n">>,
      <<"V", "e", "r", "s", "i", "o", "n", ":", " ", "1", ".", "2", "\n">>,
      <<"V", "e", "r", "s", "i", "o", "n", ":", " ", "3", ":", "4", "\n">>,
      <<"V", "e", "r", "s", "i", "o", "n", ":", "5", "\n">>,
      <<"H", "o", "m", "e", ":", " ", "h", "\n">> }

RECURSIVE concat(_)
concat(ls) == IF ls = <<>> THEN <<>> ELSE Head(ls) \o concat(Tail(ls))

\* PKG-INFO: absent, or its content.
PkgInfoChoices ==
    { [status |-> "absent", data |-> <<>>] }
    \cup { [status |-> "ok", data |-> concat(ls)] :
             ls \in UNION { [1..n -> PkgInfoLines] : n \in 0..MaxLines } }

\* The files next to setup.py.
MakeFs(dir, marker, pkginfo) ==
    LET mp == dir \o <<"/">> \o VersionSh
        pp == dir \o <<"/">> \o PkgInfo
        dom == (IF marker.status = "absent" THEN {} ELSE {mp})
               \cup (IF pkginfo.status = "absent" THEN {} ELSE {pp})
    IN [p \in dom |-> IF p = mp THEN marker ELSE pkginfo]

Init ==
    /\ \E inv \in Invocations, m \in MarkerChoices, p \in PkgInfoChoices :
         /\ cwd = inv.cwd
         /\ file = inv.file
         /\ scriptDir = inv.dir
         /\ fs = MakeFs(inv.dir, m, p)
    /\ pc = "start"
    /\ here = Unbound
    /\ version = Unbound
    /\ package_name = Unbound
    /\ package = Unbound
    /\ lines = <<>>
    /\ i = 0
    /\ spawned = <<>>
    /\ opened = <<>>
    /\ setupCalls = <<>>
    /\ error = "none"

----------------------------------------------------------------------------
(* the script, statement by statement *)

\* The run ends with an uncaught exception.
Raise(e) ==
    /\ pc' = "failed"
    /\ error' = e

\* line 7: here = path.abspath(path.dirname(__file__))
SetHere ==
    /\ pc = "start"
    /\ here' = abspath(dirname(file))
    /\ pc' = "test"
    /\ UNCHANGED <<env, version, package_name, package, lines, i, spawned,
                   opened, setupCalls, error>>

\* line 9: if path.exists(path.join(here, "version.sh"))
TestMarker ==
    /\ pc = "test"
    /\ pc' = IF exists(path_join(here, VersionSh)) THEN "development"
             ELSE "source"
    /\ UNCHANGED <<env, here, version, package_name, package, lines, i,
                   spawned, opened, setupCalls, error>>

\* Mutant of RunMarker: a failing version.sh falls back to PKG-INFO.
RunMarker_fallback ==
    /\ pc = "development"
    /\ LET cmd == path_join(here, VersionSh) IN
       /\ spawned' = Append(spawned, cmd)
       /\ IF fs[cmd].status = "ok"
          THEN /\ version' = strip(fs[cmd].data)
               /\ pc' = "basename"
          ELSE /\ version' = version
               /\ pc' = "source"
    /\ UNCHANGED <<env, here, package_name, package, lines, i, opened,
                   setupCalls, error>>

\* Mutant of RunMarker: PKG-INFO is read as well after version.sh ran.
RunMarker_then_source ==
    /\ pc = "development"
    /\ LET cmd == path_join(here, VersionSh) IN
       /\ spawned' = Append(spawned, cmd)
       /\ IF fs[cmd].status = "ok"
          THEN /\ version' = strip(fs[cmd].data)
               /\ pc' = "source"
               /\ error' = error
          ELSE /\ version' = version
               /\ Raise(IF fs[cmd].status = "nonzero"
                        THEN "CalledProcessError" ELSE "OSError")
    /\ UNCHANGED <<env, here, package_name, package, lines, i, opened,
                   setupCalls>>

\* line 10: version = check_output(path.join(here, "version.sh")).strip()
RunMarker ==
    /\ pc = "development"
    /\ LET cmd == path_join(here, VersionSh) IN
       /\ spawned' = Append(spawned, cmd)
       /\ IF fs[cmd].status = "ok"
          THEN /\ version' = strip(fs[cmd].data)
               /\ pc' = "basename"
               /\ error' = error
          ELSE /\ version' = version
               /\ Raise(IF fs[cmd].status = "nonzero"
                        THEN "CalledProcessError" ELSE "OSError")
    /\ UNCHANGED <<env, here, package_name, package, lines, i, opened,
                   setupCalls>>

\* line 11: package_name = path.basename(here)
SetDevName ==
    /\ pc = "basename"
    /\ package_name' = basename(here)
    /\ pc' = "derive"
    /\ UNCHANGED <<env, here, version, package, lines, i, spawned, opened,
                   setupCalls, error>>

\* Mutant of OpenPkgInfo: a missing PKG-INFO is read as an empty file.
OpenPkgInfo_missing_ok ==
    /\ pc = "source"
    /\ LET p == path_join(here, PkgInfo) IN
       /\ opened' = IF exists(p) THEN Append(opened, p) ELSE opened
       /\ lines' = IF exists(p) THEN readlines(fs[p].data) ELSE <<>>
       /\ i' = 1
       /\ pc' = "scan"
    /\ UNCHANGED <<env, here, version, package_name, package, spawned,
                   setupCalls, error>>

\* lines 13-14: with open(path.join(here, "PKG-INFO")) as f: f.readlines()
OpenPkgInfo ==
    /\ pc = "source"
    /\ LET p == path_join(here, PkgInfo) IN
       IF exists(p)
       THEN /\ opened' = Append(opened, p)
            /\ lines' = readlines(fs[p].data)
            /\ i' = 1
            /\ pc' = "scan"
            /\ error' = error
       ELSE /\ Raise("IOError")
            /\ UNCHANGED <<opened, lines, i>>
    /\ UNCHANGED <<env, here, version, package_name, package, spawned,
                   setupCalls>>

\* Mutant of FieldValue: everything after the first colon, split(":", 1).
FieldValue_rest(line) ==
    strip(SubSeq(line, find(line, ":") + 1, Len(line)))

\* lines 16, 18: line.split(":")[1].strip()
FieldValue(line) == strip(split(line, ":")[2])

\* Mutant of ScanLine: a field that is already set is not overwritten.
ScanLine_first_wins ==
    /\ pc = "scan"
    /\ IF i > Len(lines)
       THEN /\ pc' = "derive"
            /\ UNCHANGED <<version, package_name, i>>
       ELSE LET line == lines[i] IN
            /\ version' =
                 IF startswith(line, VersionPrefix) /\ version = Unbound
                 THEN FieldValue(line) ELSE version
            /\ package_name' =
                 IF ~startswith(line, VersionPrefix)
                    /\ startswith(line, NamePrefix) /\ package_name = Unbound
                 THEN FieldValue(line) ELSE package_name
            /\ i' = i + 1
            /\ pc' = pc
    /\ UNCHANGED <<env, here, package, lines, spawned, opened, setupCalls,
                   error>>

\* Mutant of ScanLine: the setup() call is indented into the for loop.
ScanLine_setup_in_loop ==
    /\ pc = "scan"
    /\ IF i > Len(lines)
       THEN /\ pc' = "derive"
            /\ UNCHANGED <<version, package_name, i, setupCalls>>
       ELSE LET line == lines[i]
                v == IF startswith(line, VersionPrefix)
                     THEN FieldValue(line) ELSE version
                n == IF ~startswith(line, VersionPrefix)
                        /\ startswith(line, NamePrefix)
                     THEN FieldValue(line) ELSE package_name
            IN
            /\ version' = v
            /\ package_name' = n
            /\ setupCalls' =
                 IF v # Unbound /\ n # Unbound
                 THEN Append(setupCalls,
                             [name |-> n, version |-> v,
                              url |-> UrlPrefix \o n,
                              package_data |->
                                  [key |-> replace(n, "-", "_"),
                                   value |-> <<VersionJson>>]])
                 ELSE setupCalls
            /\ i' = i + 1
            /\ pc' = pc
    /\ UNCHANGED <<env, here, package, lines, spawned, opened, error>>

\* lines 14-18: one turn of the for loop, or its end
ScanLine ==
    /\ pc = "scan"
    /\ IF i > Len(lines)
       THEN /\ pc' = "derive"
            /\ UNCHANGED <<version, package_name, i>>
       ELSE LET line == lines[i] IN
            /\ version' =
                 IF startswith(line, VersionPrefix)
                 THEN FieldValue(line) ELSE version
            /\ package_name' =
                 IF ~startswith(line, VersionPrefix)
                    /\ startswith(line, NamePrefix)
                 THEN FieldValue(line) ELSE package_name
            /\ i' = i + 1
            /\ pc' = pc
    /\ UNCHANGED <<env, here, package, lines, spawned, opened, setupCalls,
                   error>>

\* line 19: package = package_name.replace('-', '_')
DerivePackage ==
    /\ pc = "derive"
    /\ IF package_name = Unbound
       THEN /\ Raise("NameError")
            /\ package' = package
       ELSE /\ package' = replace(package_name, "-", "_")
            /\ pc' = "setup"
            /\ error' = error
    /\ UNCHANGED <<env, here, version, package_name, lines, i, spawned,
                   opened, setupCalls>>

\* The keyword arguments of lines 22-39 that depend on the resolution.
SetupArgs ==
    [name         |-> package_name,
     version      |-> version,
     url          |-> UrlPrefix \o package_name,
     package_data |-> [key |-> package, value |-> <<VersionJson>>]]

\* Mutant of CallSetup: an unassigned version is passed on as it is.
CallSetup_unchecked ==
    /\ pc = "setup"
    /\ setupCalls' = Append(setupCalls, SetupArgs)
    /\ pc' = "done"
    /\ UNCHANGED <<env, here, version, package_name, package, lines, i,
                   spawned, opened, error>>

\* lines 21-41: setup(name=package_name, version=version, ...)
CallSetup ==
    /\ pc = "setup"
    /\ IF version = Unbound
       THEN /\ Raise("NameError")
            /\ setupCalls' = setupCalls
       ELSE /\ setupCalls' = Append(setupCalls, SetupArgs)
            /\ pc' = "done"
            /\ error' = error
    /\ UNCHANGED <<env, here, version, package_name, package, lines, i,
                   spawned, opened>>

Next ==
    \/ SetHere
    \/ TestMarker
    \/ RunMarker
    \/ SetDevName
    \/ OpenPkgInfo
    \/ ScanLine
    \/ DerivePackage
    \/ CallSetup

Spec == Init /\ [][Next]_vars

----------------------------------------------------------------------------
(* vocabulary of the properties, stated on the files and not on the         *)
(* script's operators                                                       *)

Terminal == pc \in {"done", "failed"}

MarkerPath == scriptDir \o <<"/">> \o VersionSh
PkgInfoPath == scriptDir \o <<"/">> \o PkgInfo

MarkerPresent == MarkerPath \in DOMAIN fs
MarkerOk == MarkerPresent /\ fs[MarkerPath].status = "ok"
MarkerFails == MarkerPresent /\ fs[MarkerPath].status # "ok"
PkgInfoPresent == PkgInfoPath \in DOMAIN fs
SourceMode == ~MarkerPresent /\ PkgInfoPresent

\* v is s without its leading and trailing whitespace
IsTrimOf(v, s) ==
    \E a, b \in 0..Len(s) :
        /\ a + b <= Len(s)
        /\ v = SubSeq(s, a + 1, Len(s) - b)
        /\ \A k \in 1..a : s[k] \in Whitespace
        /\ \A k \in (Len(s) - b + 1)..Len(s) : s[k] \in Whitespace
        /\ v # <<>> => (v[1] \notin Whitespace /\ v[Len(v)] \notin Whitespace)

\* n is the last component of the absolute path p
IsLastComponent(n, p) ==
    /\ \A k \in 1..Len(n) : n[k] # "/"
    /\ Len(p) > Len(n)
    /\ p[Len(p) - Len(n)] = "/"
    /\ \A k \in 1..Len(n) : p[Len(p) - Len(n) + k] = n[k]

HasPrefix(s, p) == Len(s) >= Len(p) /\ \A k \in 1..Len(p) : s[k] = p[k]

\* the lines of a text, by the positions of its line ends
LineStarts(c) == { k \in 1..Len(c) : k = 1 \/ c[k - 1] = "\n" }
LineAt(c, s) ==
    SubSeq(c, s, CHOOSE e \in s..Len(c) :
                     /\ c[e] = "\n" \/ e = Len(c)
                     /\ \A k \in s..(e - 1) : c[k] # "\n")
FileLines(c) ==
    [k \in 1..Cardinality(LineStarts(c)) |->
        LineAt(c, CHOOSE s \in LineStarts(c) :
                      Cardinality({ t \in LineStarts(c) : t <= s }) = k)]

\* the lines of PKG-INFO
SrcLines == IF PkgInfoPresent THEN FileLines(fs[PkgInfoPath].data) ELSE <<>>

\* a line counts for the version when it starts with "Version:", for the
\* name when it starts with "Name:"
VersionIdx == { k \in 1..Len(SrcLines) : HasPrefix(SrcLines[k], VersionPrefix) }
NameIdx == { k \in 1..Len(SrcLines) : HasPrefix(SrcLines[k], NamePrefix) }

Colons(line) == { k \in 1..Len(line) : line[k] = ":" }
FirstColon(line) == CHOOSE k \in Colons(line) : \A m \in Colons(line) : k <= m
\* the text after the first colon of the line
AfterColon(line) == SubSeq(line, FirstColon(line) + 1, Len(line))
\* the text between the first colon of the line and its second colon (or
\* the end of the line)
BetweenColons(line) ==
    LET rest == AfterColon(line) IN
    IF Colons(rest) = {} THEN rest ELSE SubSeq(rest, 1, FirstColon(rest) - 1)

Max(S) == CHOOSE k \in S : \A m \in S : m <= k
Min(S) == CHOOSE k \in S : \A m \in S : k <= m

Hyphens(s) == { k \in 1..Len(s) : s[k] = "-" }

----------------------------------------------------------------------------
(* C1 *)

\* C1 as stated: when version.sh exists and runs, setup() gets the base
\* name of the current directory as name, and the trimmed output as version.
C1_AsStated ==
    (pc = "done" /\ MarkerOk) =>
        /\ IsLastComponent(setupCalls[1].name, cwd)
        /\ IsTrimOf(setupCalls[1].version, fs[MarkerPath].data)

\* C1 (amended): when version.sh exists and running it succeeds, the run
\* ends with one setup() call whose name is the base name of the directory
\* that holds setup.py and whose version is the output of version.sh with
\* the surrounding whitespace removed.
C1_DevelopmentResolution ==
    (Terminal /\ MarkerOk) =>
        /\ pc = "done"
        /\ Len(setupCalls) = 1
        /\ IsLastComponent(setupCalls[1].name, scriptDir)
        /\ IsTrimOf(setupCalls[1].version, fs[MarkerPath].data)

C1_Witness ==
    /\ pc = "done"
    /\ MarkerOk
    /\ cwd # scriptDir
    /\ setupCalls[1].version # fs[MarkerPath].data

(* C2 *)

C2_Pre ==
    /\ SourceMode
    /\ Cardinality(NameIdx) = 1
    /\ Cardinality(VersionIdx) = 1
    /\ \A k \in NameIdx \cup VersionIdx : Cardinality(Colons(SrcLines[k])) = 1

\* C2: without version.sh, when PKG-INFO has exactly one "Name:" line and
\* exactly one "Version:" line, neither with a colon in its value, in any
\* order and among any other lines, setup() gets the two values, trimmed.
C2_SourceResolution ==
    (Terminal /\ C2_Pre) =>
        /\ pc = "done"
        /\ Len(setupCalls) = 1
        /\ \A k \in NameIdx :
             IsTrimOf(setupCalls[1].name, AfterColon(SrcLines[k]))
        /\ \A k \in VersionIdx :
             IsTrimOf(setupCalls[1].version, AfterColon(SrcLines[k]))

C2_Witness ==
    /\ pc = "done"
    /\ C2_Pre
    /\ Len(SrcLines) = 3
    /\ Min(VersionIdx) < Min(NameIdx)
    /\ setupCalls[1].name = <<"q">>

(* C3 *)

\* C3: setup() gets the resolved name unchanged as name, and the key of
\* package_data is that name with each hyphen replaced by an underscore and
\* every other character kept.
C3_ModuleName ==
    pc = "done" =>
        LET c == setupCalls[1]
            key == c.package_data.key
        IN
        /\ c.name = package_name
        /\ MarkerOk => IsLastComponent(c.name, scriptDir)
        /\ Len(key) = Len(c.name)
        /\ \A k \in 1..Len(c.name) :
             key[k] = IF c.name[k] = "-" THEN "_" ELSE c.name[k]

C3_Witness ==
    /\ pc = "done"
    /\ Cardinality(Hyphens(setupCalls[1].name)) >= 2
    /\ Hyphens(setupCalls[1].package_data.key) = {}

(* C4 *)

\* C4: with neither version.sh nor PKG-INFO, setup() is never called and
\* the run ends with the error of open().
C4_NoInputsFails ==
    (~MarkerPresent /\ ~PkgInfoPresent) =>
        /\ setupCalls = <<>>
        /\ pc # "done"
        /\ Terminal => (pc = "failed" /\ error = "IOError")

C4_Witness ==
    /\ ~MarkerPresent
    /\ ~PkgInfoPresent
    /\ pc = "failed"
    /\ error = "IOError"

(* C5 *)

\* the scan of PKG-INFO is over
Scanned ==
    \/ pc \in {"derive", "setup", "done"}
    \/ pc = "failed" /\ error = "NameError"

\* C5 as stated: of several "Version:" (or "Name:") lines the first one
\* gives the resolved value.
C5_AsStated ==
    (SourceMode /\ Scanned) =>
        /\ VersionIdx # {} =>
             IsTrimOf(version, BetweenColons(SrcLines[Min(VersionIdx)]))
        /\ NameIdx # {} =>
             IsTrimOf(package_name, BetweenColons(SrcLines[Min(NameIdx)]))

\* C5 (amended): of several "Version:" (or "Name:") lines the last one in
\* file order gives the resolved value; earlier ones are overwritten.
C5_LastMatchWins ==
    (SourceMode /\ Scanned) =>
        /\ VersionIdx # {} =>
             IsTrimOf(version, BetweenColons(SrcLines[Max(VersionIdx)]))
        /\ NameIdx # {} =>
             IsTrimOf(package_name, BetweenColons(SrcLines[Max(NameIdx)]))

C5_Witness ==
    /\ SourceMode
    /\ pc = "done"
    /\ Cardinality(VersionIdx) >= 2
    /\ BetweenColons(SrcLines[Min(VersionIdx)])
         # BetweenColons(SrcLines[Max(VersionIdx)])
    /\ setupCalls[1].version = <<"5">>

(* C6 *)

\* C6: when version.sh exists and running it fails, PKG-INFO is not opened,
\* setup() is never called and the run ends with the error of the command.
C6_MarkerFailureFatal ==
    MarkerFails =>
        /\ opened = <<>>
        /\ setupCalls = <<>>
        /\ pc # "done"
        /\ Terminal =>
             /\ pc = "failed"
             /\ error = IF fs[MarkerPath].status = "nonzero"
                        THEN "CalledProcessError" ELSE "OSError"

C6_Witness ==
    /\ MarkerFails
    /\ PkgInfoPresent
    /\ NameIdx # {}
    /\ VersionIdx # {}
    /\ pc = "failed"
    /\ error = "CalledProcessError"

(* C7 *)

C7_Pre == SourceMode /\ (VersionIdx = {} \/ NameIdx = {})

\* C7 as stated: a PKG-INFO without a "Version:" or without a "Name:" line
\* gives no error; the unset value reaches setup().
C7_AsStated ==
    (Terminal /\ C7_Pre) =>
        /\ error = "none"
        /\ Len(setupCalls) = 1

\* C7 (amended): a PKG-INFO without a "Version:" or without a "Name:" line
\* ends the run with a NameError where the unassigned variable is read, and
\* setup() is never called.
C7_MissingFieldRaises ==
    C7_Pre =>
        /\ setupCalls = <<>>
        /\ pc # "done"
        /\ Terminal => (pc = "failed" /\ error = "NameError")

C7_Witness ==
    /\ C7_Pre
    /\ NameIdx # {}
    /\ package_name # Unbound
    /\ version = Unbound
    /\ pc = "failed"
    /\ error = "NameError"

(* C8 *)

\* C8: a run runs version.sh once or opens PKG-INFO once, never both; with
\* version.sh present PKG-INFO is not opened and its lines do not reach
\* setup(); with version.sh absent no command is run.
C8_ModesExclusive ==
    /\ Len(spawned) + Len(opened) <= 1
    /\ \A k \in 1..Len(spawned) : spawned[k] = MarkerPath
    /\ \A k \in 1..Len(opened) : opened[k] = PkgInfoPath
    /\ MarkerPresent =>
         /\ opened = <<>>
         /\ lines = <<>>
         /\ pc \notin {"source", "scan"}
         /\ pc = "done" =>
              /\ spawned = <<MarkerPath>>
              /\ IsTrimOf(setupCalls[1].version, fs[MarkerPath].data)
              /\ IsLastComponent(setupCalls[1].name, scriptDir)
    /\ ~MarkerPresent =>
         /\ spawned = <<>>
         /\ pc \notin {"development", "basename"}
         /\ pc = "done" => opened = <<PkgInfoPath>>

C8_Witness ==
    /\ MarkerOk
    /\ PkgInfoPresent
    /\ NameIdx # {}
    /\ VersionIdx # {}
    /\ pc = "done"
    /\ spawned = <<MarkerPath>>
    /\ opened = <<>>

(* C9 *)

\* C9: the value taken from a "Version:" or "Name:" line is the text between
\* the first and the second colon of the line, trimmed; when the value has a
\* colon of its own, what follows it is lost and the result is not the whole
\* value.
C9_ValueCutAtSecondColon ==
    (SourceMode /\ pc = "scan" /\ i > 1) =>
        LET line == SrcLines[i - 1]
            got == IF HasPrefix(line, VersionPrefix) THEN version
                   ELSE package_name
        IN
        (HasPrefix(line, VersionPrefix) \/ HasPrefix(line, NamePrefix)) =>
            /\ IsTrimOf(got, BetweenColons(line))
            /\ Colons(got) = {}
            /\ Cardinality(Colons(line)) >= 2 =>
                 ~IsTrimOf(got, AfterColon(line))

C9_Witness ==
    /\ SourceMode
    /\ pc = "scan"
    /\ i > 1
    /\ HasPrefix(SrcLines[i - 1], VersionPrefix)
    /\ Cardinality(Colons(SrcLines[i - 1])) = 2
    /\ version = <<"3">>

(* C10 *)

\* C10: setup() is called at most once, only as the last step of a run
\* whose resolution is over, and not at all in a run that ends in an error.
C10_SetupOnceAfterResolution ==
    /\ Len(setupCalls) <= 1
    /\ setupCalls # <<>> =>
         /\ pc = "done"
         /\ error = "none"
         /\ \/ spawned = <<MarkerPath>> /\ MarkerOk
            \/ opened = <<PkgInfoPath>> /\ i = Len(SrcLines) + 1
    /\ pc = "failed" => (error # "none" /\ setupCalls = <<>>)
    /\ pc = "done" => Len(setupCalls) = 1

C10_Witness ==
    /\ pc = "done"
    /\ Len(setupCalls) = 1
    /\ opened = <<PkgInfoPath>>
    /\ Len(SrcLines) >= 2
    /\ i = Len(SrcLines) + 1

====
